---- MODULE Spec2Model ----
(***************************************************************************)
(* kitten: a fan-out executor.  main builds one task per host, puts them   *)
(* on the module-level queue `tasks`, starts min(threads, #hosts) worker   *)
(* threads and joins them; a KeyboardInterrupt caught around run_workers   *)
(* sets the module-level event `stop`.                                     *)
(*                                                                         *)
(* Strings that are taken apart or concatenated by the code (host names,   *)
(* remote paths) are sequences of one-character strings.                   *)
(***************************************************************************)
EXTENDS Integers, Sequences, FiniteSets, TLC

\* ------------------------------------------------------------------ bounds
MaxHosts == 3        \* longest host list explored (argparse: nargs="+", so >= 1)
MaxThreads == 2      \* largest --threads explored

\* --threads is parsed with type=int and never validated: zero and negative
\* values reach main
ThreadValues == -1..MaxThreads

HostNames == {<<"a">>, <<"b">>}
Tools == {"run", "get", "put"}
Remotes == {<<"/", "d", "/", "f">>, <<"f">>}

Workers == 1..(IF MaxHosts > MaxThreads THEN MaxHosts ELSE MaxThreads)   \* thread identities
NoTask == [op |-> "none", host |-> <<>>, entry |-> 0]

VARIABLES
    hosts,      \* args.hosts
    tool,       \* args.tool
    threads,    \* args.threads
    remote,     \* args.remote (read by the model for get only)
    tasks,      \* the queue's deque, head first
    unfinished, \* the queue's unfinished_tasks counter
    stop,       \* the Event's flag
    mpc,        \* position of the main thread
    tlist,      \* main: the list returned by get_tasks
    mi,         \* main: index of the for loop it is in
    nw,         \* main: num_workers
    wpc,        \* position of each worker thread
    wtask,      \* worker: the task it holds (its local `task`) while it runs it
    \* history (not program state)
    enq,        \* the tasks put on the queue, in order
    deq,        \* entries in the order they were dequeued
    done,       \* entries whose task returned normally
    raised,     \* entries whose task raised out of task()
    report,     \* per entry, the OK/FAIL lines printed for it
    caught,     \* entries whose put/get transfer raised inside the task's try
    writes,     \* local paths written, with the entry that wrote them
    intr,       \* a KeyboardInterrupt was delivered to the main thread
    afterStop,  \* per worker, tasks it dequeued while stop was set
    \* the ip tool (print_ips)
    ids,        \* list(instance_ids)
    public,     \* args.public
    ec2,        \* what EC2 holds for the instances that can lack an address
    ipos,       \* chunks: the generator's index i (0-based)
    resp,       \* the instances of the current request still to be printed
    ipc,        \* position of print_ips
    requests,   \* history: the chunks handed to instance_ids_to_ips, in order
    returned,   \* history: the IDs of the instances the requests returned, in order
    printed     \* history: the lines logged, each with the instance it is for

hvars == <<enq, deq, done, raised, report, caught, writes, intr, afterStop>>
ipvars == <<ids, public, ec2, ipos, resp, ipc, requests, returned, printed>>
vars == <<hosts, tool, threads, remote, tasks, unfinished, stop, mpc, tlist, mi, nw,
          wpc, wtask, enq, deq, done, raised, report, caught, writes, intr, afterStop,
          ids, public, ec2, ipos, resp, ipc, requests, returned, printed>>

\* ------------------------------------------------------------- pure helpers
SeqsUpTo(S, n) == UNION {[1..k -> S] : k \in 1..n}

min(a, b) == IF a < b THEN a ELSE b

range(n) == 1..n   \* the iterations of `for _ in range(n)`: none when n <= 0

RECURSIVE basename(_)
basename(p) ==
    IF p = <<>> THEN <<>>
    ELSE IF p[Len(p)] = "/" THEN <<>>
    ELSE basename(SubSeq(p, 1, Len(p) - 1)) \o <<p[Len(p)]>>

LocalPath_nohost(host, rem) == basename(rem)

\* get: local = conn.host + "/" + os.path.basename(remote)
LocalPath(host, rem) == host \o <<"/">> \o basename(rem)

get_tasks_lastbound(hs, t) ==
    [i \in 1..Len(hs) |-> [op |-> t, host |-> hs[Len(hs)], entry |-> i]]

\* get_tasks: one functools.partial per connection, one connection per host
get_tasks(hs, t) == [i \in 1..Len(hs) |-> [op |-> t, host |-> hs[i], entry |-> i]]

get_nowait_peek(q) == [task |-> Head(q), rest |-> q]

\* Queue.get_nowait on a non-empty queue: the head, and the rest
get_nowait(q) == [task |-> Head(q), rest |-> Tail(q)]

put_nowait_front(q, t) == <<t>> \o q

\* Queue.put_nowait
put_nowait(q, t) == Append(q, t)

num_workers_hosts(th, hs) == Len(hs)

num_workers_threads(th, hs) == th

\* main: min(args.threads, len(args.hosts))
num_workers(th, hs) == min(th, Len(hs))

is_alive_never(w) == FALSE

\* Thread.is_alive
is_alive(w) == wpc[w] \notin {"unstarted", "exited", "died"}

KeepGoing_always(flag) == TRUE

\* worker: the while condition
KeepGoing(flag) == ~flag

AfterTask_once == "exited"

\* worker: where the loop goes after task() and task_done()
AfterTask == "test"

OnEmpty_continue == "test"

\* worker: except queue.Empty: break
OnEmpty == "exited"

PutLoopDone_first(i, ts) == i > 1

\* main: the for loop over get_tasks(args) is over
PutLoopDone(i, ts) == i > Len(ts)

\* ------------------------------------------------------------------- Init
\* the ip tool is not the one invoked
IpIdle ==
    /\ ids = <<>>
    /\ public = FALSE
    /\ ec2 = <<>>
    /\ ipos = 0
    /\ resp = <<>>
    /\ ipc = "off"
    /\ requests = <<>>
    /\ returned = <<>>
    /\ printed = <<>>

Init ==
    /\ hosts \in SeqsUpTo(HostNames, MaxHosts)
    /\ tool \in Tools
    /\ threads \in ThreadValues
    /\ remote \in IF tool = "get" THEN Remotes ELSE {<<>>}
    /\ tasks = <<>>
    /\ unfinished = 0
    /\ stop = FALSE
    /\ mpc = "get_tasks"
    /\ tlist = <<>>
    /\ mi = 1
    /\ nw = 0
    /\ wpc = [w \in Workers |-> "unstarted"]
    /\ wtask = [w \in Workers |-> NoTask]
    /\ enq = <<>>
    /\ deq = <<>>
    /\ done = {}
    /\ raised = {}
    /\ report = [i \in 1..Len(hosts) |-> <<>>]
    /\ caught = {}
    /\ writes = {}
    /\ intr = FALSE
    /\ afterStop = [w \in Workers |-> 0]
    /\ IpIdle

\* ------------------------------------------------------------ main thread
\* main: get_tasks(args)
MainGetTasks ==
    /\ mpc = "get_tasks"
    /\ tlist' = get_tasks(hosts, tool)
    /\ mi' = 1
    /\ mpc' = "put"
    /\ UNCHANGED <<hosts, tool, threads, remote, tasks, unfinished, stop, nw, wpc, wtask>>
    /\ UNCHANGED hvars
    /\ UNCHANGED ipvars

\* main: one iteration of `for task in ...: tasks.put_nowait(task)`
MainPut ==
    /\ mpc = "put"
    /\ ~PutLoopDone(mi, tlist)
    /\ tasks' = put_nowait(tasks, tlist[mi])
    /\ unfinished' = unfinished + 1
    /\ enq' = Append(enq, tlist[mi])
    /\ mi' = mi + 1
    /\ UNCHANGED <<hosts, tool, threads, remote, stop, mpc, tlist, nw, wpc, wtask>>
    /\ UNCHANGED <<deq, done, raised, report, caught, writes, intr, afterStop>>
    /\ UNCHANGED ipvars

\* main: the for loop ends, the try block is entered, num_workers is computed
MainNumWorkers ==
    /\ mpc = "put"
    /\ PutLoopDone(mi, tlist)
    /\ nw' = num_workers(threads, hosts)
    /\ mi' = 1
    /\ mpc' = "start"
    /\ UNCHANGED <<hosts, tool, threads, remote, tasks, unfinished, stop, tlist, wpc, wtask>>
    /\ UNCHANGED hvars
    /\ UNCHANGED ipvars

\* run_workers: one iteration of the loop that starts the threads
MainStart ==
    /\ mpc = "start"
    /\ mi \in range(nw)
    /\ wpc' = [wpc EXCEPT ![mi] = "test"]
    /\ mi' = mi + 1
    /\ UNCHANGED <<hosts, tool, threads, remote, tasks, unfinished, stop, mpc, tlist, nw, wtask>>
    /\ UNCHANGED hvars
    /\ UNCHANGED ipvars

\* run_workers: all threads started, on to the join loop
MainStarted ==
    /\ mpc = "start"
    /\ mi \notin range(nw)
    /\ mi' = 1
    /\ mpc' = "join"
    /\ UNCHANGED <<hosts, tool, threads, remote, tasks, unfinished, stop, tlist, nw, wpc, wtask>>
    /\ UNCHANGED hvars
    /\ UNCHANGED ipvars

\* run_workers: `while thread.is_alive(): thread.join(1)` is left for thread mi
MainJoin ==
    /\ mpc = "join"
    /\ mi \in range(nw)
    /\ ~is_alive(mi)
    /\ mi' = mi + 1
    /\ UNCHANGED <<hosts, tool, threads, remote, tasks, unfinished, stop, mpc, tlist, nw, wpc, wtask>>
    /\ UNCHANGED hvars
    /\ UNCHANGED ipvars

\* run_workers returns; main falls off the try block
MainReturn ==
    /\ mpc = "join"
    /\ mi \notin range(nw)
    /\ mpc' = "returned"
    /\ UNCHANGED <<hosts, tool, threads, remote, tasks, unfinished, stop, tlist, mi, nw, wpc, wtask>>
    /\ UNCHANGED hvars
    /\ UNCHANGED ipvars

\* KeyboardInterrupt delivered while main is inside the try block
InterruptInTry ==
    /\ ~intr
    /\ mpc \in {"start", "join"}
    /\ intr' = TRUE
    /\ mpc' = "except"
    /\ UNCHANGED <<hosts, tool, threads, remote, tasks, unfinished, stop, tlist, mi, nw, wpc, wtask>>
    /\ UNCHANGED <<enq, deq, done, raised, report, caught, writes, afterStop>>
    /\ UNCHANGED ipvars

\* KeyboardInterrupt delivered before the try block: nothing catches it
InterruptBeforeTry ==
    /\ ~intr
    /\ mpc \in {"get_tasks", "put"}
    /\ intr' = TRUE
    /\ mpc' = "aborted"
    /\ UNCHANGED <<hosts, tool, threads, remote, tasks, unfinished, stop, tlist, mi, nw, wpc, wtask>>
    /\ UNCHANGED <<enq, deq, done, raised, report, caught, writes, afterStop>>
    /\ UNCHANGED ipvars

\* main: except KeyboardInterrupt: log, stop.set()
MainStop ==
    /\ mpc = "except"
    /\ stop' = TRUE
    /\ mpc' = "stopped"
    /\ UNCHANGED <<hosts, tool, threads, remote, tasks, unfinished, tlist, mi, nw, wpc, wtask>>
    /\ UNCHANGED hvars
    /\ UNCHANGED ipvars

\* ---------------------------------------------------------- worker threads
\* worker: while not stop.is_set()
WorkerTest(w) ==
    /\ wpc[w] = "test"
    /\ wpc' = [wpc EXCEPT ![w] = IF KeepGoing(stop) THEN "get" ELSE "exited"]
    /\ UNCHANGED <<hosts, tool, threads, remote, tasks, unfinished, stop, mpc, tlist, mi, nw, wtask>>
    /\ UNCHANGED hvars
    /\ UNCHANGED ipvars

\* worker: task = tasks.get_nowait(), then task() is entered
WorkerGet(w) ==
    /\ wpc[w] = "get"
    /\ tasks # <<>>
    /\ LET g == get_nowait(tasks) IN
        /\ tasks' = g.rest
        /\ wtask' = [wtask EXCEPT ![w] = g.task]
        /\ deq' = Append(deq, g.task.entry)
    /\ afterStop' = [afterStop EXCEPT ![w] = IF stop THEN @ + 1 ELSE @]
    /\ wpc' = [wpc EXCEPT ![w] = "task"]
    /\ UNCHANGED <<hosts, tool, threads, remote, unfinished, stop, mpc, tlist, mi, nw>>
    /\ UNCHANGED <<enq, done, raised, report, caught, writes, intr>>
    /\ UNCHANGED ipvars

\* worker: get_nowait raises queue.Empty: break
WorkerEmpty(w) ==
    /\ wpc[w] = "get"
    /\ tasks = <<>>
    /\ wpc' = [wpc EXCEPT ![w] = OnEmpty]
    /\ UNCHANGED <<hosts, tool, threads, remote, tasks, unfinished, stop, mpc, tlist, mi, nw, wtask>>
    /\ UNCHANGED hvars
    /\ UNCHANGED ipvars

\* what the task writes locally: get makes the directory <host> and, when the
\* transfer succeeds, the file <host>/<basename(remote)>; run and put write nothing
Written(t, ok) ==
    IF t.op # "get" THEN {}
    ELSE {[entry |-> t.entry, path |-> t.host]}
         \cup (IF ok THEN {[entry |-> t.entry, path |-> LocalPath(t.host, remote)]} ELSE {})

\* the task returns normally having printed `line` (exc: after its except
\* clause caught an exception of the transfer), and task_done() is called
Returns(w, line, ok, exc) ==
    /\ report' = [report EXCEPT ![wtask[w].entry] = Append(@, line)]
    /\ caught' = IF exc THEN caught \cup {wtask[w].entry} ELSE caught
    /\ writes' = writes \cup Written(wtask[w], ok)
    /\ done' = done \cup {wtask[w].entry}
    /\ unfinished' = unfinished - 1
    /\ wpc' = [wpc EXCEPT ![w] = AfterTask]
    /\ wtask' = [wtask EXCEPT ![w] = NoTask]
    /\ UNCHANGED <<hosts, tool, threads, remote, tasks, stop, mpc, tlist, mi, nw>>
    /\ UNCHANGED <<enq, deq, raised, intr, afterStop>>
    /\ UNCHANGED ipvars

\* run/put/get: the remote operation succeeds, OK is printed
TaskOk(w) ==
    /\ wpc[w] = "task"
    /\ Returns(w, "ok", TRUE, FALSE)

\* run: the command ran and result.ok is false, FAIL is printed
RunNotOk(w) ==
    /\ wpc[w] = "task"
    /\ wtask[w].op = "run"
    /\ Returns(w, "fail", FALSE, FALSE)

\* put/get without the try: the exception leaves the task and ends the thread
TransferFails_escapes(w) ==
    /\ wpc[w] = "task"
    /\ wtask[w].op \in {"put", "get"}
    /\ raised' = raised \cup {wtask[w].entry}
    /\ wpc' = [wpc EXCEPT ![w] = "died"]
    /\ wtask' = [wtask EXCEPT ![w] = NoTask]
    /\ UNCHANGED <<hosts, tool, threads, remote, tasks, unfinished, stop, mpc, tlist, mi, nw>>
    /\ UNCHANGED <<enq, deq, done, report, caught, writes, intr, afterStop>>
    /\ UNCHANGED ipvars

\* put/get: the transfer raises; the except clause prints FAIL and the message
TransferFails(w) ==
    /\ wpc[w] = "task"
    /\ wtask[w].op \in {"put", "get"}
    /\ Returns(w, "fail", FALSE, TRUE)

\* run: c.run / c.sudo raises (e.g. the connection fails); nothing in run or in
\* worker catches it, so the thread ends
RunRaises(w) ==
    /\ wpc[w] = "task"
    /\ wtask[w].op = "run"
    /\ raised' = raised \cup {wtask[w].entry}
    /\ wpc' = [wpc EXCEPT ![w] = "died"]
    /\ wtask' = [wtask EXCEPT ![w] = NoTask]
    /\ UNCHANGED <<hosts, tool, threads, remote, tasks, unfinished, stop, mpc, tlist, mi, nw>>
    /\ UNCHANGED <<enq, deq, done, report, caught, writes, intr, afterStop>>
    /\ UNCHANGED ipvars

Next ==
    \/ MainGetTasks
    \/ MainPut
    \/ MainNumWorkers
    \/ MainStart
    \/ MainStarted
    \/ MainJoin
    \/ MainReturn
    \/ InterruptInTry
    \/ InterruptBeforeTry
    \/ MainStop
    \/ \E w \in Workers : WorkerTest(w)
    \/ \E w \in Workers : WorkerGet(w)
    \/ \E w \in Workers : WorkerEmpty(w)
    \/ \E w \in Workers : TaskOk(w)
    \/ \E w \in Workers : RunNotOk(w)
    \/ \E w \in Workers : TransferFails(w)
    \/ \E w \in Workers : RunRaises(w)

Spec == Init /\ [][Next]_vars

\* The steps of the main thread other than the delivery of a signal
MainStep ==
    \/ MainGetTasks \/ MainPut \/ MainNumWorkers \/ MainStart \/ MainStarted
    \/ MainJoin \/ MainReturn \/ MainStop

\* The steps of worker thread w; a task in progress ends by one of the last four
WorkerStep(w) ==
    \/ WorkerTest(w) \/ WorkerGet(w) \/ WorkerEmpty(w)
    \/ TaskOk(w) \/ RunNotOk(w) \/ TransferFails(w) \/ RunRaises(w)

\* Host names reach only the paths a get task writes, never the control flow of
\* main or of worker: the fair runs are explored over host lists of every
\* length with one name
FairInit == Init /\ \A i \in DOMAIN hosts : hosts[i] = <<"a">>

\* Every thread that can take a step is eventually scheduled, and every task
\* execution ends; whether an interrupt arrives is left open
FairSpec ==
    /\ FairInit
    /\ [][Next]_vars
    /\ WF_vars(MainStep)
    /\ \A w \in Workers : WF_vars(WorkerStep(w))

\* ------------------------------------------------------------ the ip tool
CHUNK_SIZE == 100

MaxLen == 4      \* longest list of instance IDs enumerated element by element
MaxId == 2       \* instance IDs 1..MaxId appear in the enumerated lists
MaxChunk == 3    \* chunk sizes 1..MaxChunk are tried besides CHUNK_SIZE

\* instance IDs whose addresses vary: an instance has both addresses, only a
\* private one, or (terminated) none; every other instance has both
Varying == {1, 2}
AddressKinds == {"both", "private", "none"}

\* Python values: None, bool, str (a sequence of tokens, empty for "")
None == [t |-> "none"]
Bool(b) == [t |-> "bool", v |-> b]
Str(x) == [t |-> "str", v |-> x]

\* Python truth value
Truthy(x) ==
    CASE x.t = "none" -> FALSE
      [] x.t = "bool" -> x.v
      [] x.t = "str" -> Len(x.v) > 0

\* Python `a and b`, `a or b`
PyAnd(a, b) == IF Truthy(a) THEN b ELSE a
PyOr(a, b) == IF Truthy(a) THEN a ELSE b

slice_short(l, a, b) == SubSeq(l, a + 1, min(b - 1, Len(l)))

\* l[a : b] for 0 <= a <= b
slice(l, a, b) == SubSeq(l, a + 1, min(b, Len(l)))

\* chunks(l, n), n >= 1, as the list of what the generator yields from index i on
RECURSIVE chunksFrom(_, _, _)
chunksFrom(l, n, i) ==
    IF i >= Len(l) THEN <<>>
    ELSE <<slice(l, i, i + n)>> \o chunksFrom(l, n, i + n)

chunks(l, n) == chunksFrom(l, n, 0)

\* the instance resource EC2 returns for an ID
Instance(x) ==
    LET kind == IF x \in DOMAIN ec2 THEN ec2[x] ELSE "both" IN
    [id |-> x,
     public_ip_address |-> IF kind = "both" THEN Str(<<"pub", x>>) ELSE None,
     private_ip_address |-> IF kind = "none" THEN None ELSE Str(<<"priv", x>>)]

\* the IDs of a request without repetition, in order of first occurrence
Distinct(l) ==
    LET first == {k \in DOMAIN l : \A j \in 1..(k - 1) : l[j] # l[k]}
        nth(m) == CHOOSE k \in first : Cardinality({j \in first : j <= k}) = m
    IN [m \in 1..Cardinality(first) |-> l[nth(m)]]

\* instance_ids_to_ips: one dict per instance matching the instance-id filter
instance_ids_to_ips(chunk) ==
    LET d == Distinct(chunk) IN
    [k \in DOMAIN d |->
        [id |-> d[k],
         public |-> Instance(d[k]).public_ip_address,
         private |-> Instance(d[k]).private_ip_address]]

Logged_flag_only(pub, ip) == IF pub THEN ip["public"] ELSE ip["private"]

\* print_ips: public and ip["public"] or ip["private"]
Logged(pub, ip) == PyOr(PyAnd(Bool(pub), ip["public"]), ip["private"])

Iota(n) == [k \in 1..n |-> k]

\* the lists of instance IDs explored: every list of up to MaxLen IDs, and
\* lists of distinct IDs that fill one request exactly and that need three
IdLists ==
    UNION {[1..k -> 1..MaxId] : k \in 0..MaxLen}
        \cup {Iota(CHUNK_SIZE), Iota(2 * CHUNK_SIZE + 1)}

\* main with args.tool = "ip", at the call of print_ips
IpInit ==
    /\ tool = "ip"
    /\ mpc = "ip"
    /\ hosts = <<>> /\ threads = 0 /\ remote = <<>>
    /\ tasks = <<>> /\ unfinished = 0 /\ stop = FALSE
    /\ tlist = <<>> /\ mi = 1 /\ nw = 0
    /\ wpc = [w \in Workers |-> "unstarted"]
    /\ wtask = [w \in Workers |-> NoTask]
    /\ enq = <<>> /\ deq = <<>> /\ done = {} /\ raised = {}
    /\ report = <<>> /\ caught = {} /\ writes = {}
    /\ intr = FALSE
    /\ afterStop = [w \in Workers |-> 0]
    /\ ids \in IdLists
    /\ public \in BOOLEAN
    /\ ec2 \in [Varying -> AddressKinds]
    /\ ipos = 0
    /\ resp = <<>>
    /\ ipc = "chunks"
    /\ requests = <<>>
    /\ returned = <<>>
    /\ printed = <<>>

\* the worker pool is not in use
PoolIdle ==
    UNCHANGED <<hosts, tool, threads, remote, tasks, unfinished, stop, mpc, tlist, mi, nw,
                wpc, wtask, enq, deq, done, raised, report, caught, writes, intr, afterStop>>

\* print_ips: chunks yields the next chunk, instance_ids_to_ips is called on it
IpNextChunk ==
    /\ ipc = "chunks"
    /\ ipos < Len(ids)
    /\ LET chunk == slice(ids, ipos, ipos + CHUNK_SIZE) IN
        /\ requests' = Append(requests, chunk)
        /\ resp' = instance_ids_to_ips(chunk)
        /\ returned' = returned \o [k \in DOMAIN resp' |-> resp'[k].id]
    /\ ipos' = ipos + CHUNK_SIZE
    /\ ipc' = "instances"
    /\ UNCHANGED <<ids, public, ec2, printed>>
    /\ PoolIdle

\* print_ips: log.info for the next instance of the request
IpLog ==
    /\ ipc = "instances"
    /\ resp # <<>>
    /\ printed' = Append(printed, [id |-> Head(resp).id, line |-> Logged(public, Head(resp))])
    /\ resp' = Tail(resp)
    /\ UNCHANGED <<ids, public, ec2, ipos, ipc, requests, returned>>
    /\ PoolIdle

\* print_ips: the inner loop is over
IpChunkDone ==
    /\ ipc = "instances"
    /\ resp = <<>>
    /\ ipc' = "chunks"
    /\ UNCHANGED <<ids, public, ec2, ipos, resp, requests, returned, printed>>
    /\ PoolIdle

\* print_ips: chunks is exhausted, print_ips returns
IpReturn ==
    /\ ipc = "chunks"
    /\ ipos >= Len(ids)
    /\ ipc' = "done"
    /\ UNCHANGED <<ids, public, ec2, ipos, resp, requests, returned, printed>>
    /\ PoolIdle

IpNext ==
    \/ IpNextChunk
    \/ IpLog
    \/ IpChunkDone
    \/ IpReturn

IpSpec == IpInit /\ [][IpNext]_vars

\* ------------------------------------------------------- derived quantities
Entries == 1..Len(hosts)
Terminated == {"exited", "died"}
Started == {w \in Workers : wpc[w] # "unstarted"}
\* tasks dequeued and neither returned nor raised yet
InFlight == Len(deq) - Cardinality(done \cup raised)
max(a, b) == IF a > b THEN a ELSE b
Range(f) == {f[i] : i \in DOMAIN f}

\* ------------------------------------------------------------------ claims

\* C1: in a run with no interrupt and no task raising, with threads >= 1, when
\* run_workers returns the queue is empty and the task of every host entry has
\* been executed to completion.
C1_AllExecuted ==
    (mpc = "returned" /\ ~intr /\ raised = {} /\ threads >= 1)
        => (tasks = <<>> /\ done = Entries /\ InFlight = 0)

C1_Witness ==
    /\ mpc = "returned" /\ ~intr /\ raised = {}
    /\ threads = 2 /\ Len(hosts) = 3
    /\ done = Entries

\* C2: under every interleaving, with or without interrupt or task failure, no
\* task is executed more than once: no entry is dequeued twice, no two workers
\* hold the same task, and a dequeued task (failed or not) is never on the
\* queue again.
C2_AtMostOnce ==
    /\ \A i, j \in DOMAIN deq : i # j => deq[i] # deq[j]
    /\ \A k \in DOMAIN tasks : tasks[k].entry \notin Range(deq)
    /\ \A k, l \in DOMAIN tasks : k # l => tasks[k].entry # tasks[l].entry
    /\ \A v, w \in Workers :
          (v # w /\ wpc[v] = "task" /\ wpc[w] = "task") => wtask[v].entry # wtask[w].entry

C2_Witness ==
    /\ Len(deq) = 3 /\ raised # {} /\ intr
    /\ \E v, w \in Workers : v # w /\ wpc[v] = "task" /\ wpc[w] = "died"

\* C3 (as stated): the number of tasks being executed is at most the number of
\* workers started, which is at most the --threads value.
C3_Original ==
    /\ InFlight <= Cardinality(Started)
    /\ Cardinality(Started) <= threads

\* C3 (amended): the number of tasks being executed is at most the number of
\* workers started, which is at most max(0, --threads).
C3_Bounded ==
    /\ InFlight <= Cardinality(Started)
    /\ Cardinality(Started) <= max(0, threads)

C3_Witness ==
    /\ threads = 2 /\ Len(hosts) = 3
    /\ InFlight = 2 /\ Cardinality(Started) = 2 /\ tasks # <<>>

\* C4 (as stated): tasks are independent per host: when a task fails by raising,
\* the tasks of the other hosts are still executed; in a run without interrupt,
\* once run_workers has returned every task that did not raise has been executed.
C4_OthersExecuted ==
    (mpc = "returned" /\ ~intr /\ threads >= 1) => (Entries \ raised) \subseteq done

\* C5 (as stated): after the stop flag has been set no worker dequeues or starts
\* a task.
C5_Original == \A w \in Workers : afterStop[w] = 0

\* C5 (amended): a worker tests the stop flag before each dequeue, so after the
\* stop flag has been set a worker dequeues at most one more task (the one
\* whose flag test came before the flag was set) and never reaches get_nowait
\* again after that one.
C5_AtMostOneMore ==
    \A w \in Workers :
        /\ afterStop[w] <= 1
        /\ afterStop[w] = 1 => wpc[w] # "get"

C5_Witness ==
    /\ stop /\ tasks # <<>>
    /\ \E v, w \in Workers :
        /\ v # w
        /\ afterStop[v] = 1 /\ wpc[v] = "exited"
        /\ afterStop[w] = 0 /\ wpc[w] = "exited"

\* C6: get_tasks builds exactly one task per entry of the host list, in order,
\* the i-th bound to the i-th host and to the selected operation, and main
\* enqueues exactly these tasks, in that order.
C6_OneTaskPerHost ==
    /\ mpc \notin {"get_tasks", "aborted"} =>
        /\ Len(tlist) = Len(hosts)
        /\ \A i \in Entries :
            tlist[i].host = hosts[i] /\ tlist[i].op = tool /\ tlist[i].entry = i
    /\ mpc \notin {"get_tasks", "put", "aborted"} =>
        /\ Len(enq) = Len(hosts)
        /\ \A i \in Entries : enq[i].host = hosts[i] /\ enq[i].op = tool /\ enq[i].entry = i

C6_Witness ==
    /\ mpc = "start" /\ Len(hosts) = 3 /\ hosts[1] # hosts[3] /\ tool = "put"
    /\ Len(tasks) = 3

\* C7: when run_workers returns normally every worker thread it started has
\* terminated and no task is still being executed.
C7_AllJoined ==
    mpc = "returned" =>
        /\ \A w \in Workers : wpc[w] \in Terminated \cup {"unstarted"}
        /\ \A w \in range(nw) : wpc[w] \in Terminated
        /\ InFlight = 0

C7_Witness ==
    /\ mpc = "returned" /\ nw = 2 /\ Len(deq) = 3
    /\ wpc[1] = "died" /\ wpc[2] = "exited"

\* C8: every task is enqueued before the first worker thread is started, so no
\* worker runs (or has seen the queue empty) while tasks remain to be enqueued.
C8_EnqueuedBeforeStart ==
    (\E w \in Workers : wpc[w] # "unstarted") =>
        /\ mpc \notin {"get_tasks", "put"}
        /\ Len(enq) = Len(hosts)
        /\ Len(deq) + Len(tasks) = Len(hosts)

C8_Witness ==
    /\ Len(hosts) = 3 /\ ~stop /\ raised = {}
    /\ \E w \in Workers : wpc[w] = "exited"
    /\ \E w \in Workers : wpc[w] = "task"

\* every worker has terminated or was never started
AllWorkersOver == \A w \in Workers : wpc[w] \in Terminated \cup {"unstarted"}

\* some worker enters a task in this step
Begins(w) == wpc[w] # "task" /\ wpc'[w] = "task"

\* C9 (as stated): provided every task execution terminates, every worker
\* eventually terminates under fair scheduling; without interrupt run_workers
\* eventually returns; once the stop flag is set a worker only finishes the work
\* it already holds, it begins no task.
C9_Original ==
    /\ <>[]AllWorkersOver
    /\ <>(intr \/ mpc = "returned")
    /\ [][stop => \A w \in Workers : ~Begins(w)]_vars

\* C9 (amended): as stated, except that once the stop flag is set a worker may
\* still begin one task, the one it dequeues after a flag test that came before
\* the flag was set; it begins no second one.
C9_Terminates ==
    /\ <>[]AllWorkersOver
    /\ <>(intr \/ mpc = "returned")
    /\ [][stop => \A w \in Workers : Begins(w) => afterStop[w] = 0]_vars

C9_Witness ==
    /\ mpc = "stopped" /\ stop /\ AllWorkersOver
    /\ wpc[1] = "exited" /\ wpc[2] = "exited"
    /\ afterStop[1] = 1
    /\ tasks # <<>>

\* the path is <host> or <host>/<name>, <name> without "/" and the last
\* component of the remote path
OwnPath(h, p) ==
    \/ p = h
    \/ /\ Len(p) > Len(h)
       /\ SubSeq(p, 1, Len(h) + 1) = h \o <<"/">>
       /\ LET name == SubSeq(p, Len(h) + 2, Len(p))
              cut == Len(remote) - Len(name)
          IN /\ "/" \notin Range(name)
             /\ cut >= 0
             /\ SubSeq(remote, cut + 1, Len(remote)) = name
             /\ cut > 0 => remote[cut] = "/"

\* a step of worker w leaves alone everything but the queue, its own position
\* and task, and the history
WorkerFrame(w) ==
    (wpc[w] # "unstarted" /\ wpc'[w] # wpc[w]) =>
        /\ UNCHANGED <<hosts, tool, threads, remote, stop, mpc, tlist, mi, nw>>
        /\ \A v \in Workers \ {w} : wpc'[v] = wpc[v] /\ wtask'[v] = wtask[v]

\* C10 (as stated): no two tasks of one invocation write to the same result
\* location.
C10_Original ==
    \A x, y \in writes : x.entry # y.entry => x.path # y.path

\* C10 (amended): no two tasks bound to different hosts write to the same
\* result location; every get task writes only its directory <host> and its
\* path <host>/<basename(remote)>, run and put tasks write nothing locally; a
\* worker's step changes no state other than the queue, its own position and
\* task (the stop flag is only read).
C10_NoSharedResults ==
    /\ [](\A x, y \in writes : hosts[x.entry] # hosts[y.entry] => x.path # y.path)
    /\ [](\A x \in writes : tool = "get" /\ OwnPath(hosts[x.entry], x.path))
    /\ [][\A w \in Workers : WorkerFrame(w)]_vars

C10_Witness ==
    /\ tool = "get" /\ remote = <<"/", "d", "/", "f">>
    /\ hosts = <<<<"a">>, <<"b">>, <<"a">>>>
    /\ [entry |-> 1, path |-> <<"a", "/", "f">>] \in writes
    /\ [entry |-> 2, path |-> <<"b", "/", "f">>] \in writes
    /\ [entry |-> 3, path |-> <<"a", "/", "f">>] \in writes

\* C11: main starts exactly max(0, min(threads, number of host entries)) worker
\* threads: that many once the start loop is over, never more before, so never
\* more than there are hosts and, for threads >= 1, never more than --threads;
\* for threads <= 0 no worker is started, no task is executed and run_workers
\* returns with every task still in the queue.
C11_WorkerCount ==
    LET n == max(0, min(threads, Len(hosts))) IN
    /\ Cardinality(Started) <= n
    /\ Cardinality(Started) <= Len(hosts)
    /\ threads >= 1 => Cardinality(Started) <= threads
    /\ mpc \in {"join", "returned"} => Started = 1..n
    /\ threads <= 0 =>
        /\ Started = {} /\ deq = <<>> /\ done = {}
        /\ mpc = "returned" => tasks = enq /\ Len(tasks) = Len(hosts)

C11_Witness ==
    /\ threads = -1 /\ mpc = "returned"
    /\ Len(hosts) = 3 /\ Len(tasks) = 3 /\ Started = {}

\* C12: a failure of the transfer inside a put or get task is contained: FAIL is
\* reported for that host, the task returns normally, task_done is called and
\* the worker goes on; OK is reported only when the transfer did not raise, and
\* exactly one of OK or FAIL is reported per executed put/get task.
C12_TransferContained ==
    tool \in {"put", "get"} =>
        /\ raised = {}
        /\ \A w \in Workers : wpc[w] # "died"
        /\ caught \subseteq done
        /\ unfinished = Len(enq) - Cardinality(done)
        /\ \A i \in Entries :
            /\ i \in caught => report[i] = <<"fail">>
            /\ i \in done \ caught => report[i] = <<"ok">>
            /\ i \notin done => report[i] = <<>>

C12_Witness ==
    /\ tool = "put" /\ nw = 1 /\ Len(hosts) = 3
    /\ caught = {1} /\ report[2] = <<"ok">>
    /\ deq = <<1, 2, 3>> /\ wpc[1] = "task"

RECURSIVE SumTo(_, _)
SumTo(f, n) == IF n = 0 THEN 0 ELSE f[n] + SumTo(f, n - 1)

\* tasks started while the stop flag was set, over all workers
StartedAfterStop == SumTo(afterStop, Cardinality(Workers))

\* C13: cancellation is bounded: the tasks started after the stop flag is set
\* are at most one per worker started, so at most as many as the workers
\* run_workers is asked for (range(num_workers): none for num_workers <= 0),
\* and the stop flag, once set, is never cleared.
C13_BoundedCancellation ==
    /\ [](\A w \in Workers : afterStop[w] <= 1)
    /\ [](StartedAfterStop <= Cardinality(Started))
    /\ [](StartedAfterStop <= Cardinality(range(nw)))
    /\ [][stop => stop']_vars

C13_Witness ==
    /\ stop /\ nw = 2 /\ StartedAfterStop = 2
    /\ tasks # <<>> /\ AllWorkersOver

\* C14: tasks are dequeued in host-list order under every interleaving: the k-th
\* task dequeued is the task of entry k, so entry j is never dequeued before an
\* entry i < j; completion order is free.
C14_FifoDequeue ==
    /\ \A k \in DOMAIN deq : deq[k] = k
    /\ \A k \in DOMAIN tasks : tasks[k].entry = Len(deq) + k

C14_Witness ==
    /\ deq = <<1, 2, 3>>
    /\ 2 \in done /\ 1 \notin done \cup raised /\ 3 \notin done \cup raised

RECURSIVE Flatten(_)
Flatten(ss) == IF ss = <<>> THEN <<>> ELSE Head(ss) \o Flatten(Tail(ss))

\* cs partitions l in order into chunks of n: all full but possibly the last
PartitionOf(cs, l, n) ==
    /\ Flatten(cs) = l
    /\ \A k \in DOMAIN cs : Len(cs[k]) >= 1 /\ Len(cs[k]) <= n
    /\ \A k \in DOMAIN cs : k < Len(cs) => Len(cs[k]) = n
    /\ l = <<>> => cs = <<>>

ChunkSizes == (1..MaxChunk) \cup {CHUNK_SIZE}

\* (chunks is evaluated for every explored list with n = CHUNK_SIZE, and for
\* the lists of up to MaxLen IDs with every n of 1..MaxChunk as well)
\* C15: chunks(l, n) for n >= 1 partitions l in order (concatenation equal to l,
\* chunks non-empty and of at most n elements, all but the last of exactly n,
\* none for the empty list); hence print_ips hands every instance ID of the
\* list to exactly one request, in order, in requests of at most CHUNK_SIZE IDs.
C15_ChunksPartition ==
    /\ \A n \in ChunkSizes :
        (n = CHUNK_SIZE \/ Len(ids) <= MaxLen) => PartitionOf(chunks(ids, n), ids, n)
    /\ Flatten(requests) = SubSeq(ids, 1, min(ipos, Len(ids)))
    /\ \A k \in DOMAIN requests : Len(requests[k]) >= 1 /\ Len(requests[k]) <= CHUNK_SIZE
    /\ ipc = "done" => PartitionOf(requests, ids, CHUNK_SIZE)

C15_Witness ==
    /\ ipc = "done" /\ Len(ids) = 2 * CHUNK_SIZE + 1
    /\ Len(requests) = 3
    /\ Len(requests[1]) = CHUNK_SIZE /\ Len(requests[3]) = 1

\* C16: for every instance returned, print_ips prints the public IP when
\* --public is given and the instance has a public IP, and the private IP
\* otherwise; exactly one line is printed per instance.
C16_PublicWherePossible ==
    /\ \A k \in DOMAIN printed :
        LET inst == Instance(printed[k].id) IN
        printed[k].line =
            IF public /\ inst.public_ip_address.t = "str"
            THEN inst.public_ip_address
            ELSE inst.private_ip_address
    /\ Len(printed) + Len(resp) = Len(returned)
    /\ \A k \in DOMAIN printed : printed[k].id = returned[k]
    /\ ipc \in {"chunks", "done"} => Len(printed) = Len(returned)

C16_Witness ==
    /\ ipc = "done" /\ public
    /\ ids = <<1, 2, 1, 2>>
    /\ ec2[1] = "private" /\ ec2[2] = "both"
    /\ printed = <<[id |-> 1, line |-> Str(<<"priv", 1>>)],
                   [id |-> 2, line |-> Str(<<"pub", 2>>)]>>
====
